---- MODULE Spec2Model ----
(***************************************************************************)
(* A model of watchmedo (src/src/watchdog/watchmedo.py): the scheduling of *)
(* tricks on observers (schedule_tricks, tricks_from), the single-observer *)
(* session (observe_with) and the auto_restart command with its            *)
(* termination-signal handler and supervised child process.                *)
(*                                                                         *)
(* The observers (watchdog.observers), load_class (watchdog.utils) and     *)
(* AutoRestartTrick (watchdog.tricks) are not part of the modelled file:   *)
(* an observer is represented by the calls it receives (the log `calls`),  *)
(* load_class and the trick constructors by their outcome, and the         *)
(* supervisor by the start/stop/restart sequences of its specification.    *)
(***************************************************************************)
EXTENDS Naturals, Integers, Sequences, FiniteSets, TLC

\* ------------------------------------------------------------------ bounds
MaxTricks == 2
MaxItems == 2
MaxSpecs == 3
MaxFiles == 2
MaxConfigTricks == 1
MaxSignals == 2
MaxEvents == 2

\* ------------------------------------------------------------ trick specs
\* The value None of Python (getattr(handler, 'source_directory', None)).
NoneValue == "None"

\* One (name, value) item of a trick mapping: the dotted name handed to
\* load_class, the source_directory the constructed handler will expose
\* (NoneValue: the handler has no such attribute) and whether the
\* constructor accepts the parameter mapping.
TrickItems ==
    { [name |-> "tricks.A", source_directory |-> NoneValue, valid |-> TRUE],
      [name |-> "tricks.B", source_directory |-> "",        valid |-> TRUE],
      [name |-> "tricks.C", source_directory |-> "srcdir",  valid |-> TRUE],
      [name |-> "tricks.Missing", source_directory |-> NoneValue, valid |-> TRUE],
      [name |-> "tricks.A", source_directory |-> NoneValue, valid |-> FALSE] }

\* The names load_class can resolve.
Loadable == {"tricks.A", "tricks.B", "tricks.C"}

SeqsUpTo(S, n) == UNION { [1..m -> S] : m \in 0..n }

\* A trick is a mapping name -> value: its items in iteration order, the
\* keys being distinct.
TrickDicts ==
    { d \in SeqsUpTo(TrickItems, MaxItems) :
        \A a, b \in 1..Len(d) : a # b => d[a].name # d[b].name }

RECURSIVE Flatten(_)
\* The (name, value) items of a list of tricks in the order the two loops
\* of schedule_tricks visit them.
Flatten(ts) == IF ts = <<>> THEN <<>> ELSE Head(ts) \o Flatten(Tail(ts))

TrickLists ==
    { ts \in SeqsUpTo(TrickDicts, MaxTricks) : Len(Flatten(ts)) <= MaxSpecs }

\* The tricks lists of a configuration file: a list of single-key mappings.
ConfigTrickLists ==
    SeqsUpTo({ d \in TrickDicts : Len(d) = 1 }, MaxConfigTricks)

\* load_class(name): TRUE when the class is found, else it raises.
CanLoad(name) == name \in Loadable

\* TrickClass(**value): the handler instance.
Construct(item) == [cls |-> item.name, source_directory |-> item.source_directory]

NoHandler == [cls |-> "-", source_directory |-> "-"]

\* Python truthiness of the source_directory attribute.
Falsy(v) == v = NoneValue \/ v = ""

\* Variant: the handler's source_directory is never consulted.
TrickPathname_Default(handler, default) == default

\* getattr(handler, 'source_directory', None) or pathname
TrickPathname(handler, default) ==
    IF Falsy(handler.source_directory) THEN default ELSE handler.source_directory

\* ------------------------------------------------------------- sys.path
RECURSIVE InsertAll(_, _)
\* for pathname in pathnames[::-1]: sys.path.insert(0, pathname)
InsertAll(pathnames, path) ==
    IF pathnames = <<>> THEN path
    ELSE InsertAll(SubSeq(pathnames, 1, Len(pathnames) - 1),
                   <<pathnames[Len(pathnames)]>> \o path)

\* Variant: the pathnames are inserted in the given order, each at index 0,
\* so that they end up reversed.
AddToSysPath_Reversed(pathnames, path) ==
    [n \in 1..Len(pathnames) |-> pathnames[Len(pathnames) + 1 - n]] \o path

AddToSysPath(pathnames, path) == InsertAll(pathnames, path)

RECURSIVE SplitFrom(_, _, _)
\* str.split(separator) over a string given as its characters: cur is the
\* segment being read.
SplitFrom(chars, sep, cur) ==
    IF chars = <<>> THEN <<cur>>
    ELSE IF Head(chars) = sep THEN <<cur>> \o SplitFrom(Tail(chars), sep, <<>>)
    ELSE SplitFrom(Tail(chars), sep, Append(cur, Head(chars)))

PathSplit(spec) == SplitFrom(spec, ":", <<>>)

\* --python-path values: the default '.', and two roots.
PythonPathArgs == { <<".">>, <<"a", ":", "b">> }

\* The python-path key of a configuration file: absent, or a list of roots.
NoKey == <<"<absent>">>
ConfigPythonPaths == { NoKey, << <<"p">>, <<"q">> >> }

\* args.files, by position; dirname(tricks_file) is empty for the first.
FileName(i) == IF i = 1 THEN "tricks.yaml" ELSE "conf/tricks.yaml"
Dirname(f) == IF f = "tricks.yaml" THEN "" ELSE "conf"
DirPath(f) == IF Dirname(f) = "" THEN "." ELSE Dirname(f)

VARIABLES
    cmd,        \* the command or function under execution
    pc,         \* position of the main thread
    err,        \* the exception that left the command ("none" if none)
    tricks,     \* schedule_tricks: the tricks argument
    ti, ii,     \* schedule_tricks: positions of the outer and inner loop
    observer,   \* the observer being built (its identity)
    pathname,   \* schedule_tricks: the default watch path
    nfiles,     \* tricks_from: len(args.files)
    fidx,       \* tricks_from: position in args.files
    pyarg,      \* tricks_from: args.python_path, as characters
    observers,  \* tricks_from: the list observers
    tk,         \* tricks_from: position of the teardown loops
    sysPath,    \* sys.path
    calls,      \* every call received by an observer, in order
    pathnames,  \* observe_with: the pathnames argument
    todoPaths,  \* observe_with: what is left of set(pathnames)
    disposition,\* the handler installed for each termination signal
    tripped,    \* signals received and not yet handled by the interpreter
    hstack,     \* running invocations of handler_termination_signal: for
                \* each, the signals its loop has still to neuter
    shutdowns,  \* WatchdogShutdown exceptions raised into the main thread
    delivered,  \* termination signals sent to the process so far
    process,    \* supervisor: handler.process (0: None)
    children,   \* every child launched so far: "running" or "dead"
    tpc,        \* observer thread: position in the handler callback
    ttarget,    \* observer thread: the child its stop() is stopping
    mtarget,    \* main thread: the child its stop() is stopping
    events,     \* qualifying events dispatched so far
    flags,      \* shell_command: args.wait_for_process, args.drop_during_process
    gate,       \* shell_command: the two settings given to the handler
    dropped     \* shell_command: events the handler has discarded

stVars == <<tricks, ti, ii, observer, pathname>>
tfVars == <<nfiles, fidx, pyarg, observers, tk>>
owVars == <<pathnames, todoPaths>>
sigVars == <<disposition, tripped, hstack, shutdowns, delivered>>
supVars == <<process, children, tpc, ttarget, mtarget, events>>
scVars == <<flags, gate, dropped>>
arVars == <<owVars, sigVars, supVars, scVars>>
vars == <<cmd, pc, err, stVars, tfVars, sysPath, calls, arVars>>

\* ------------------------------------------------------ the observer log
Call(o, op, h, p, ok) == [o |-> o, op |-> op, h |-> h, path |-> p, ok |-> ok]

\* The calls of one operation an observer has received.
CallsOf(o, op) == { n \in 1..Len(calls) : calls[n].o = o /\ calls[n].op = op }

\* The handlers scheduled on an observer, in the order of the calls.
RECURSIVE ScheduledFrom(_, _)
ScheduledFrom(o, n) ==
    IF n > Len(calls) THEN <<>>
    ELSE IF calls[n].o = o /\ calls[n].op = "schedule"
         THEN <<calls[n]>> \o ScheduledFrom(o, n + 1)
         ELSE ScheduledFrom(o, n + 1)

Scheduled(o) == ScheduledFrom(o, 1)

Started(o) == CallsOf(o, "start") # {}
Stopped(o) == CallsOf(o, "stop") # {}
Joined(o) == CallsOf(o, "join") # {}

SysPath0 == <<"site-packages">>

\* --------------------------------------------------------- schedule_tricks
\* The body of the inner loop for one (name, value) item.

STItem == tricks[ti][ii]

\* Variant: the unresolvable spec is skipped and the loop goes on.
ST_LoadFail_Skip ==
    /\ pc = "st_loop" /\ ti <= Len(tricks) /\ ii <= Len(tricks[ti])
    /\ ~CanLoad(STItem.name)
    /\ ii' = ii + 1
    /\ UNCHANGED <<cmd, pc, err, tricks, ti, observer, pathname, tfVars, sysPath, calls, arVars>>

\* load_class(name) raises.
ST_LoadFail ==
    /\ pc = "st_loop" /\ ti <= Len(tricks) /\ ii <= Len(tricks[ti])
    /\ ~CanLoad(STItem.name)
    /\ pc' = "raised" /\ err' = "LoadError"
    /\ UNCHANGED <<cmd, stVars, tfVars, sysPath, calls, arVars>>

\* TrickClass(**value) raises.
ST_ConstructFail ==
    /\ pc = "st_loop" /\ ti <= Len(tricks) /\ ii <= Len(tricks[ti])
    /\ CanLoad(STItem.name) /\ ~STItem.valid
    /\ pc' = "raised" /\ err' = "ConstructError"
    /\ UNCHANGED <<cmd, stVars, tfVars, sysPath, calls, arVars>>

\* Variant: only the first item of each trick mapping is scheduled.
ST_Schedule_FirstKeyOnly ==
    /\ pc = "st_loop" /\ ti <= Len(tricks) /\ ii <= Len(tricks[ti])
    /\ CanLoad(STItem.name) /\ STItem.valid
    /\ LET handler == Construct(STItem)
       IN calls' = Append(calls, Call(observer, "schedule", handler,
                                      TrickPathname(handler, pathname), TRUE))
    /\ ii' = Len(tricks[ti]) + 1
    /\ UNCHANGED <<cmd, pc, err, tricks, ti, observer, pathname, tfVars, sysPath, arVars>>

\* The handler is built and scheduled on the observer.
ST_Schedule ==
    /\ pc = "st_loop" /\ ti <= Len(tricks) /\ ii <= Len(tricks[ti])
    /\ CanLoad(STItem.name) /\ STItem.valid
    /\ LET handler == Construct(STItem)
       IN calls' = Append(calls, Call(observer, "schedule", handler,
                                      TrickPathname(handler, pathname), TRUE))
    /\ ii' = ii + 1
    /\ UNCHANGED <<cmd, pc, err, tricks, ti, observer, pathname, tfVars, sysPath, arVars>>

\* The items of one trick are exhausted: next trick.
ST_NextTrick ==
    /\ pc = "st_loop" /\ ti <= Len(tricks) /\ ii > Len(tricks[ti])
    /\ ti' = ti + 1 /\ ii' = 1
    /\ UNCHANGED <<cmd, pc, err, tricks, observer, pathname, tfVars, sysPath, calls, arVars>>

\* The outer loop is exhausted: schedule_tricks returns to its caller.
ST_Return ==
    /\ pc = "st_loop" /\ ti > Len(tricks)
    /\ pc' = "st_returned"
    /\ UNCHANGED <<cmd, err, stVars, tfVars, sysPath, calls, arVars>>

\* ------------------------------------------------------------- tricks_from
\* add_to_sys_path(path_split(args.python_path)); observers = []
TF_Begin ==
    /\ cmd = "tricks_from" /\ pc = "tf_begin"
    /\ sysPath' = AddToSysPath(PathSplit(pyarg), sysPath)
    /\ pc' = "tf_for"
    /\ UNCHANGED <<cmd, err, stVars, tfVars, calls, arVars>>

\* Variant: one observer is shared by all the files.
TF_NewObserver_Shared ==
    /\ pc = "tf_for" /\ fidx <= nfiles
    /\ observer' = 1
    /\ pc' = "tf_file"
    /\ UNCHANGED <<cmd, err, tricks, ti, ii, pathname, tfVars, sysPath, calls, arVars>>

\* for tricks_file in args.files: observer = Observer(timeout=...)
TF_NewObserver ==
    /\ pc = "tf_for" /\ fidx <= nfiles
    /\ observer' = fidx
    /\ pc' = "tf_file"
    /\ UNCHANGED <<cmd, err, tricks, ti, ii, pathname, tfVars, sysPath, calls, arVars>>

\* os.path.exists(tricks_file) is false: OSError(ENOENT).
TF_Missing ==
    /\ pc = "tf_file"
    /\ pc' = "raised" /\ err' = "OSError"
    /\ UNCHANGED <<cmd, stVars, tfVars, sysPath, calls, arVars>>

\* The configuration has no 'tricks' key: KeyError.
TF_NoTricksKey ==
    /\ pc = "tf_file"
    /\ pc' = "raised" /\ err' = "KeyError"
    /\ UNCHANGED <<cmd, stVars, tfVars, sysPath, calls, arVars>>

\* The configuration is loaded, its python-path (if any) is added to
\* sys.path, and schedule_tricks is entered with its tricks and dir_path.
TF_Load ==
    /\ pc = "tf_file"
    /\ \E ts \in ConfigTrickLists, pp \in ConfigPythonPaths :
         /\ tricks' = ts
         /\ sysPath' = IF pp = NoKey THEN sysPath ELSE AddToSysPath(pp, sysPath)
    /\ pathname' = DirPath(FileName(fidx))
    /\ ti' = 1 /\ ii' = 1
    /\ pc' = "st_loop"
    /\ UNCHANGED <<cmd, err, observer, tfVars, calls, arVars>>

\* observer.start(); observers.append(observer)
TF_Start ==
    /\ cmd = "tricks_from" /\ pc = "st_returned"
    /\ calls' = Append(calls, Call(observer, "start", NoHandler, "-", TRUE))
    /\ observers' = Append(observers, observer)
    /\ fidx' = fidx + 1
    /\ pc' = "tf_for"
    /\ UNCHANGED <<cmd, err, stVars, nfiles, pyarg, tk, sysPath, arVars>>

\* All files are processed: the poll loop is entered.
TF_EnterLoop ==
    /\ pc = "tf_for" /\ fidx > nfiles
    /\ pc' = "tf_sleep"
    /\ UNCHANGED <<cmd, err, stVars, tfVars, sysPath, calls, arVars>>

\* WatchdogShutdown is raised inside time.sleep(1) and caught.  tricks_from
\* installs no signal handler: the exception comes from a handler that the
\* embedding program has installed.
TF_Cancel ==
    /\ pc = "tf_sleep"
    /\ pc' = "tf_unschedule" /\ tk' = 1
    /\ shutdowns' = shutdowns + 1
    /\ UNCHANGED <<cmd, err, stVars, nfiles, fidx, pyarg, observers, sysPath, calls,
                   owVars, disposition, tripped, hstack, delivered, supVars, scVars>>

\* for o in observers: o.unschedule_all() ...
TF_UnscheduleAll ==
    /\ pc = "tf_unschedule" /\ tk <= Len(observers)
    /\ \E ok \in BOOLEAN :
         /\ calls' = Append(calls, Call(observers[tk], "unschedule_all", NoHandler, "-", ok))
         /\ IF ok THEN pc' = "tf_stop" /\ err' = err
                  ELSE pc' = "raised" /\ err' = "TeardownError"
    /\ UNCHANGED <<cmd, stVars, tfVars, sysPath, arVars>>

\* Variant: each observer is joined right after its stop, inside the first
\* loop.
TF_Stop_ThenJoin ==
    /\ pc = "tf_stop"
    /\ calls' = calls \o << Call(observers[tk], "stop", NoHandler, "-", TRUE),
                            Call(observers[tk], "join", NoHandler, "-", TRUE) >>
    /\ pc' = "tf_unschedule" /\ err' = err /\ tk' = tk + 1
    /\ UNCHANGED <<cmd, stVars, nfiles, fidx, pyarg, observers, sysPath, arVars>>

\* ... o.stop()
TF_Stop ==
    /\ pc = "tf_stop"
    /\ \E ok \in BOOLEAN :
         /\ calls' = Append(calls, Call(observers[tk], "stop", NoHandler, "-", ok))
         /\ IF ok THEN pc' = "tf_unschedule" /\ err' = err /\ tk' = tk + 1
                  ELSE pc' = "raised" /\ err' = "TeardownError" /\ tk' = tk
    /\ UNCHANGED <<cmd, stVars, nfiles, fidx, pyarg, observers, sysPath, arVars>>

\* The stop loop is exhausted: the join loop begins.
TF_StopsDone ==
    /\ pc = "tf_unschedule" /\ tk > Len(observers)
    /\ pc' = "tf_join" /\ tk' = 1
    /\ UNCHANGED <<cmd, err, stVars, nfiles, fidx, pyarg, observers, sysPath, calls, arVars>>

\* for o in observers: o.join()
TF_Join ==
    /\ pc = "tf_join" /\ tk <= Len(observers)
    /\ \E ok \in BOOLEAN :
         /\ calls' = Append(calls, Call(observers[tk], "join", NoHandler, "-", ok))
         /\ IF ok THEN pc' = pc /\ err' = err /\ tk' = tk + 1
                  ELSE pc' = "raised" /\ err' = "TeardownError" /\ tk' = tk
    /\ UNCHANGED <<cmd, stVars, nfiles, fidx, pyarg, observers, sysPath, arVars>>

\* The join loop is exhausted: tricks_from returns.
TF_Return ==
    /\ pc = "tf_join" /\ tk > Len(observers)
    /\ pc' = "done"
    /\ UNCHANGED <<cmd, err, stVars, tfVars, sysPath, calls, arVars>>

\* ------------------------------------------------- termination signals
Sigs == {"SIGINT", "SIGTERM"}

\* The commands that start observers and block in a poll loop.
SessionCommands == {"tricks_from", "log", "shell_command", "auto_restart"}

\* The process is still executing Python code of the command.
Alive == pc \notin {"done", "raised", "killed"}

\* The main thread executes the command's own code (it is not inside the
\* signal handler).
MainRuns == hstack = <<>>

\* Where a WatchdogShutdown raised at position p of the main thread lands:
\* the except clause of observe_with (poll loop only), the except/finally
\* of auto_restart (the rest of observe_with), or out of the command.
ExceptionTarget(p) ==
    IF p = "ow_sleep" THEN "ow_stop"
    ELSE IF p \in {"ow_schedule", "ow_try", "ow_stop", "ow_join"} THEN "ar_finally"
    ELSE "raised"

\* Variant: the handler leaves the signal handlers installed.
NeuterNothing(d, s) == d

\* signal.signal(signum, signal.SIG_IGN)
NeuterSignal(d, s) == [d EXCEPT ![s] = "ignore"]

\* for signum in termination_signals: signal.signal(signum, handler)
AR_Install ==
    /\ cmd = "auto_restart" /\ pc = "ar_install" /\ MainRuns
    /\ \E s \in Sigs :
         /\ disposition[s] = "default"
         /\ disposition' = [disposition EXCEPT ![s] = "handler"]
    /\ UNCHANGED <<cmd, pc, err, stVars, tfVars, sysPath, calls, owVars,
                   tripped, hstack, shutdowns, delivered, supVars, scVars>>

\* Both handlers are installed: the trick is constructed.
AR_Installed ==
    /\ pc = "ar_install" /\ MainRuns
    /\ \A s \in Sigs : disposition[s] # "default"
    /\ pc' = "ar_start"
    /\ UNCHANGED <<cmd, err, stVars, tfVars, sysPath, calls, arVars>>

\* A termination signal reaches the process while the Python handler is
\* installed: the interpreter notes it and runs the handler later.
SignalTrips ==
    /\ cmd = "auto_restart" /\ Alive /\ delivered < MaxSignals
    /\ \E s \in Sigs :
         /\ disposition[s] = "handler"
         /\ tripped' = tripped \cup {s}
    /\ delivered' = delivered + 1
    /\ UNCHANGED <<cmd, pc, err, stVars, tfVars, sysPath, calls, owVars,
                   disposition, hstack, shutdowns, supVars, scVars>>

\* A termination signal reaches the process while it is ignored.
SignalIgnored ==
    /\ cmd = "auto_restart" /\ Alive /\ delivered < MaxSignals
    /\ \E s \in Sigs : disposition[s] = "ignore"
    /\ delivered' = delivered + 1
    /\ UNCHANGED <<cmd, pc, err, stVars, tfVars, sysPath, calls, owVars,
                   disposition, tripped, hstack, shutdowns, supVars, scVars>>

\* The main thread is blocked in time.sleep(1) of a poll loop.
InPollLoop == pc \in {"ow_sleep", "tf_sleep"}

\* A termination signal reaches the process while no handler is installed
\* for it: SIGTERM ends the process, SIGINT raises KeyboardInterrupt, which
\* no command catches.  auto_restart is in this situation before line 610.
\* The other commands are in it throughout; for them the signal is taken
\* while the session blocks in its poll loop (at any other position it ends
\* the process in the same way).
SignalDefault ==
    /\ cmd \in SessionCommands /\ Alive /\ delivered < MaxSignals
    /\ cmd # "auto_restart" => InPollLoop
    /\ \E s \in Sigs :
         /\ disposition[s] = "default"
         /\ err' = IF s = "SIGINT" THEN "KeyboardInterrupt" ELSE "SIGTERM"
    /\ pc' = "killed"
    /\ delivered' = delivered + 1
    /\ UNCHANGED <<cmd, stVars, tfVars, sysPath, calls, owVars,
                   disposition, tripped, hstack, shutdowns, supVars, scVars>>

\* The interpreter, between two instructions of the main thread, calls
\* handler_termination_signal for a noted signal.
HandlerEnter ==
    /\ Alive
    /\ \E s \in tripped :
         /\ disposition[s] = "handler"
         /\ tripped' = tripped \ {s}
    /\ hstack' = Append(hstack, Sigs)
    /\ UNCHANGED <<cmd, pc, err, stVars, tfVars, sysPath, calls, owVars,
                   disposition, shutdowns, delivered, supVars, scVars>>

\* A noted signal whose handler has meanwhile been replaced by SIG_IGN is
\* dropped.
HandlerSkipped ==
    /\ Alive
    /\ \E s \in tripped :
         /\ disposition[s] = "ignore"
         /\ tripped' = tripped \ {s}
    /\ UNCHANGED <<cmd, pc, err, stVars, tfVars, sysPath, calls, owVars,
                   disposition, hstack, shutdowns, delivered, supVars, scVars>>

\* One iteration of the handler's loop: a signal of the set is neutered.
HandlerNeuter ==
    /\ Alive /\ hstack # <<>>
    /\ \E s \in hstack[Len(hstack)] :
         /\ disposition' = NeuterSignal(disposition, s)
         /\ hstack' = [hstack EXCEPT ![Len(hstack)] = @ \ {s}]
    /\ UNCHANGED <<cmd, pc, err, stVars, tfVars, sysPath, calls, owVars,
                   tripped, shutdowns, delivered, supVars, scVars>>

\* raise WatchdogShutdown: it unwinds every running handler invocation and
\* reaches the code the main thread was executing.
HandlerRaise ==
    /\ Alive /\ hstack # <<>>
    /\ hstack[Len(hstack)] = {}
    /\ hstack' = <<>>
    /\ shutdowns' = shutdowns + 1
    /\ pc' = ExceptionTarget(pc)
    /\ err' = IF ExceptionTarget(pc) = "raised" THEN "WatchdogShutdown" ELSE err
    /\ UNCHANGED <<cmd, stVars, tfVars, sysPath, calls, owVars,
                   disposition, tripped, delivered, supVars, scVars>>

\* ------------------------------------------------------------ supervisor
Supervisor == 0
AutoRestartHandler == [cls |-> "AutoRestartTrick", source_directory |-> NoneValue]
ShellCommandHandler == [cls |-> "ShellCommandTrick", source_directory |-> NoneValue]
LoggerHandler == [cls |-> "LoggerTrick", source_directory |-> NoneValue]

\* The handler that the running command hands to observe_with.
Handler ==
    IF cmd = "auto_restart" THEN AutoRestartHandler
    ELSE IF cmd = "shell_command" THEN ShellCommandHandler
    ELSE LoggerHandler

Running == { c \in 1..Len(children) : children[c] = "running" }

\* A new child is launched and becomes handler.process.
Launch(cs) == Append(cs, "running")

\* start(): launches the child if absent, no-op if one is held.
StartProcess(p, cs) == IF p = 0 THEN Len(cs) + 1 ELSE p
StartChildren(p, cs) == IF p = 0 THEN Launch(cs) ELSE cs

\* The child is force-killed after kill_after.
Kill(cs, c) == [cs EXCEPT ![c] = "dead"]

\* A running child exits (on the stop signal or by itself).
ChildExits ==
    /\ cmd \in {"auto_restart", "shell_command"}
    /\ \E c \in Running : children' = Kill(children, c)
    /\ UNCHANGED <<cmd, pc, err, stVars, tfVars, sysPath, calls, owVars, sigVars,
                   process, tpc, ttarget, mtarget, events, scVars>>

\* Variant: the launch failure is swallowed and the session is set up.
AR_StartFails_Continue ==
    /\ pc = "ar_start" /\ MainRuns
    /\ calls' = Append(calls, Call(Supervisor, "start", AutoRestartHandler, "-", FALSE))
    /\ pc' = "ar_observer" /\ err' = err
    /\ UNCHANGED <<cmd, stVars, tfVars, sysPath, arVars>>

\* handler.start() at line 622 cannot launch the child.
AR_StartFails ==
    /\ pc = "ar_start" /\ MainRuns
    /\ calls' = Append(calls, Call(Supervisor, "start", AutoRestartHandler, "-", FALSE))
    /\ pc' = "raised" /\ err' = "LaunchError"
    /\ UNCHANGED <<cmd, stVars, tfVars, sysPath, arVars>>

\* handler.start() at line 622.
AR_Start ==
    /\ pc = "ar_start" /\ MainRuns
    /\ calls' = Append(calls, Call(Supervisor, "start", AutoRestartHandler, "-", TRUE))
    /\ process' = StartProcess(process, children)
    /\ children' = StartChildren(process, children)
    /\ pc' = "ar_observer"
    /\ UNCHANGED <<cmd, err, stVars, tfVars, sysPath, owVars, sigVars,
                   tpc, ttarget, mtarget, events, scVars>>

\* observer = Observer(timeout=args.timeout); observe_with is entered.
AR_Observer ==
    /\ pc = "ar_observer" /\ MainRuns
    /\ observer' = 1
    /\ todoPaths' = { pathnames[n] : n \in 1..Len(pathnames) }
    /\ pc' = "ow_schedule"
    /\ UNCHANGED <<cmd, err, tricks, ti, ii, pathname, tfVars, sysPath, calls,
                   pathnames, sigVars, supVars, scVars>>

\* ----------------------------------------------------------- observe_with
\* for pathname in set(pathnames): observer.schedule(...)
OW_Schedule ==
    /\ pc = "ow_schedule" /\ MainRuns
    /\ \E p \in todoPaths :
         /\ calls' = Append(calls, Call(observer, "schedule", Handler, p, TRUE))
         /\ todoPaths' = todoPaths \ {p}
    /\ UNCHANGED <<cmd, pc, err, stVars, tfVars, sysPath, pathnames, sigVars, supVars, scVars>>

\* Variant: the observer is started although paths remain to be scheduled.
OW_Start_Early ==
    /\ pc = "ow_schedule" /\ MainRuns
    /\ calls' = Append(calls, Call(observer, "start", NoHandler, "-", TRUE))
    /\ pc' = "ow_try"
    /\ UNCHANGED <<cmd, err, stVars, tfVars, sysPath, arVars>>

\* observer.start()
OW_Start ==
    /\ pc = "ow_schedule" /\ MainRuns /\ todoPaths = {}
    /\ calls' = Append(calls, Call(observer, "start", NoHandler, "-", TRUE))
    /\ pc' = "ow_try"
    /\ UNCHANGED <<cmd, err, stVars, tfVars, sysPath, arVars>>

\* Variant: the poll loop ends by itself after a tick.
OW_Try_NoLoop ==
    /\ pc = "ow_try" /\ MainRuns
    /\ pc' = "ow_stop"
    /\ UNCHANGED <<cmd, err, stVars, tfVars, sysPath, calls, arVars>>

\* try: while True: time.sleep(1)
OW_Try ==
    /\ pc = "ow_try" /\ MainRuns
    /\ pc' = "ow_sleep"
    /\ UNCHANGED <<cmd, err, stVars, tfVars, sysPath, calls, arVars>>

\* WatchdogShutdown is raised inside time.sleep(1) of log or shell_command
\* and caught.  Neither command installs a signal handler: the exception
\* comes from a handler that the embedding program has installed.
OW_Cancel ==
    /\ cmd \in {"log", "shell_command"} /\ pc = "ow_sleep"
    /\ pc' = "ow_stop"
    /\ shutdowns' = shutdowns + 1
    /\ UNCHANGED <<cmd, err, stVars, tfVars, sysPath, calls, owVars,
                   disposition, tripped, hstack, delivered, supVars, scVars>>

\* except WatchdogShutdown: observer.stop()
OW_Stop ==
    /\ pc = "ow_stop" /\ MainRuns
    /\ calls' = Append(calls, Call(observer, "stop", NoHandler, "-", TRUE))
    /\ pc' = "ow_join"
    /\ UNCHANGED <<cmd, err, stVars, tfVars, sysPath, arVars>>

\* observer.join(): returns once the observer thread has ended; observe_with
\* returns into the finally clause of auto_restart, or to the end of log or
\* shell_command.
OW_Join ==
    /\ pc = "ow_join" /\ MainRuns /\ tpc = "idle"
    /\ calls' = Append(calls, Call(observer, "join", NoHandler, "-", TRUE))
    /\ pc' = IF cmd = "auto_restart" THEN "ar_finally" ELSE "done"
    /\ UNCHANGED <<cmd, err, stVars, tfVars, sysPath, arVars>>

\* ------------------------------------------- finally: handler.stop()
\* stop() with no child held returns at once.
AR_StopNothing ==
    /\ pc = "ar_finally" /\ MainRuns /\ process = 0
    /\ calls' = Append(calls, Call(Supervisor, "stop", AutoRestartHandler, "-", TRUE))
    /\ pc' = "ar_return"
    /\ UNCHANGED <<cmd, err, stVars, tfVars, sysPath, arVars>>

\* stop(): the stop signal is sent to the child held.
AR_StopSignal ==
    /\ pc = "ar_finally" /\ MainRuns /\ process # 0
    /\ calls' = Append(calls, Call(Supervisor, "stop", AutoRestartHandler, "-", TRUE))
    /\ mtarget' = process
    /\ pc' = "ar_stop_wait"
    /\ UNCHANGED <<cmd, err, stVars, tfVars, sysPath, owVars, sigVars,
                   process, children, tpc, ttarget, events, scVars>>

\* stop(): the child has exited within kill_after.
AR_StopExited ==
    /\ pc = "ar_stop_wait" /\ MainRuns /\ children[mtarget] = "dead"
    /\ pc' = "ar_stop_clear"
    /\ UNCHANGED <<cmd, err, stVars, tfVars, sysPath, calls, arVars>>

\* stop(): kill_after has elapsed, the child is killed.
AR_StopKill ==
    /\ pc = "ar_stop_wait" /\ MainRuns /\ children[mtarget] = "running"
    /\ children' = Kill(children, mtarget)
    /\ pc' = "ar_stop_clear"
    /\ UNCHANGED <<cmd, err, stVars, tfVars, sysPath, calls, owVars, sigVars,
                   process, tpc, ttarget, mtarget, events, scVars>>

\* stop(): the child is forgotten and stop() returns.
AR_StopClear ==
    /\ pc = "ar_stop_clear" /\ MainRuns
    /\ process' = 0
    /\ pc' = "ar_return"
    /\ UNCHANGED <<cmd, err, stVars, tfVars, sysPath, calls, owVars, sigVars,
                   children, tpc, ttarget, mtarget, events, scVars>>

\* auto_restart returns to main() and the process exits.
AR_Return ==
    /\ pc = "ar_return" /\ MainRuns
    /\ pc' = "done"
    /\ UNCHANGED <<cmd, err, stVars, tfVars, sysPath, calls, arVars>>

\* --------------------------------------- observer thread: on_any_event
\* The observer thread runs from observer.start() until observer.stop().
ObserverThreadRuns == Alive /\ Started(1) /\ ~Stopped(1)

\* A qualifying event is dispatched into the handler: restart begins.
T_Dispatch ==
    /\ cmd = "auto_restart" /\ ObserverThreadRuns
    /\ tpc = "idle" /\ events < MaxEvents
    /\ events' = events + 1
    /\ tpc' = "t_stop"
    /\ UNCHANGED <<cmd, pc, err, stVars, tfVars, sysPath, calls, owVars, sigVars,
                   process, children, ttarget, mtarget, scVars>>

\* restart, stop(): no child held.
T_StopNothing ==
    /\ Alive /\ tpc = "t_stop" /\ process = 0
    /\ tpc' = "t_start"
    /\ UNCHANGED <<cmd, pc, err, stVars, tfVars, sysPath, calls, owVars, sigVars,
                   process, children, ttarget, mtarget, events, scVars>>

\* restart, stop(): the stop signal is sent to the child held.
T_StopSignal ==
    /\ Alive /\ tpc = "t_stop" /\ process # 0
    /\ ttarget' = process
    /\ tpc' = "t_wait"
    /\ UNCHANGED <<cmd, pc, err, stVars, tfVars, sysPath, calls, owVars, sigVars,
                   process, children, mtarget, events, scVars>>

\* restart, stop(): the child has exited within kill_after.
T_StopExited ==
    /\ Alive /\ tpc = "t_wait" /\ children[ttarget] = "dead"
    /\ tpc' = "t_clear"
    /\ UNCHANGED <<cmd, pc, err, stVars, tfVars, sysPath, calls, owVars, sigVars,
                   process, children, ttarget, mtarget, events, scVars>>

\* restart, stop(): kill_after has elapsed, the child is killed.
T_StopKill ==
    /\ Alive /\ tpc = "t_wait" /\ children[ttarget] = "running"
    /\ children' = Kill(children, ttarget)
    /\ tpc' = "t_clear"
    /\ UNCHANGED <<cmd, pc, err, stVars, tfVars, sysPath, calls, owVars, sigVars,
                   process, ttarget, mtarget, events, scVars>>

\* restart, stop(): the child is forgotten.
T_StopClear ==
    /\ Alive /\ tpc = "t_clear"
    /\ process' = 0
    /\ tpc' = "t_start"
    /\ UNCHANGED <<cmd, pc, err, stVars, tfVars, sysPath, calls, owVars, sigVars,
                   children, ttarget, mtarget, events, scVars>>

\* restart, start(): the replacement is launched.
T_Start ==
    /\ Alive /\ tpc = "t_start"
    /\ process' = StartProcess(process, children)
    /\ children' = StartChildren(process, children)
    /\ tpc' = "idle"
    /\ UNCHANGED <<cmd, pc, err, stVars, tfVars, sysPath, calls, owVars, sigVars,
                   ttarget, mtarget, events, scVars>>

\* ---------------------------------------------------- shell_command, log
\* Variant: drop_during_process is not handed to the handler.
GateConfig_NoDrop(f) == [wait |-> f.wait, drop |-> FALSE]

\* Variant: wait_for_process is not handed to the handler.
GateConfig_NoWait(f) == [wait |-> FALSE, drop |-> f.drop]

\* ShellCommandTrick(..., wait_for_process=args.wait_for_process,
\*                   drop_during_process=args.drop_during_process)
GateConfig(f) == [wait |-> f.wait, drop |-> f.drop]

\* handler = ShellCommandTrick(...)
SC_Handler ==
    /\ cmd = "shell_command" /\ pc = "sc_handler"
    /\ gate' = GateConfig(flags)
    /\ pc' = "sc_observer"
    /\ UNCHANGED <<cmd, err, stVars, tfVars, sysPath, calls, owVars, sigVars, supVars,
                   flags, dropped>>

\* observer = Observer(timeout=args.timeout); observe_with is entered.
SC_Observer ==
    /\ pc = "sc_observer"
    /\ observer' = 1
    /\ todoPaths' = { pathnames[n] : n \in 1..Len(pathnames) }
    /\ pc' = "ow_schedule"
    /\ UNCHANGED <<cmd, err, tricks, ti, ii, pathname, tfVars, sysPath, calls,
                   pathnames, sigVars, supVars, scVars>>

\* log: handler = LoggerTrick(...); observer = Observer(timeout=args.timeout);
\* observe_with is entered.
LG_Observer ==
    /\ cmd = "log" /\ pc = "lg_observer"
    /\ observer' = 1
    /\ todoPaths' = { pathnames[n] : n \in 1..Len(pathnames) }
    /\ pc' = "ow_schedule"
    /\ UNCHANGED <<cmd, err, tricks, ti, ii, pathname, tfVars, sysPath, calls,
                   pathnames, sigVars, supVars, scVars>>

\* ------------------------------------ observer thread: the command gate
\* A command invocation of the handler is outstanding.
Busy == process # 0 /\ children[process] = "running"

\* A matching event is dispatched into the shell-command handler.
G_Dispatch ==
    /\ cmd = "shell_command" /\ ObserverThreadRuns
    /\ tpc = "idle" /\ events < MaxEvents
    /\ events' = events + 1
    /\ tpc' = "g_event"
    /\ UNCHANGED <<cmd, pc, err, stVars, tfVars, sysPath, calls, owVars, sigVars,
                   process, children, ttarget, mtarget, scVars>>

\* drop-if-busy: the event is discarded while an invocation is outstanding.
G_Drop ==
    /\ Alive /\ tpc = "g_event"
    /\ gate.drop /\ Busy
    /\ dropped' = dropped + 1
    /\ tpc' = "idle"
    /\ UNCHANGED <<cmd, pc, err, stVars, tfVars, sysPath, calls, owVars, sigVars,
                   process, children, ttarget, mtarget, events, flags, gate>>

\* The command is launched; under serialize the thread then waits for it.
G_Launch ==
    /\ Alive /\ tpc = "g_event"
    /\ ~(gate.drop /\ Busy)
    /\ children' = Launch(children)
    /\ process' = Len(children) + 1
    /\ tpc' = IF gate.wait THEN "g_wait" ELSE "idle"
    /\ UNCHANGED <<cmd, pc, err, stVars, tfVars, sysPath, calls, owVars, sigVars,
                   ttarget, mtarget, events, scVars>>

\* serialize: the invocation has exited, the callback returns.
G_WaitDone ==
    /\ Alive /\ tpc = "g_wait"
    /\ children[process] = "dead"
    /\ tpc' = "idle"
    /\ UNCHANGED <<cmd, pc, err, stVars, tfVars, sysPath, calls, owVars, sigVars,
                   process, children, ttarget, mtarget, events, scVars>>

\* A matching event is dispatched into the logger handler, which prints it.
L_Dispatch ==
    /\ cmd = "log" /\ ObserverThreadRuns
    /\ tpc = "idle" /\ events < MaxEvents
    /\ events' = events + 1
    /\ UNCHANGED <<cmd, pc, err, stVars, tfVars, sysPath, calls, owVars, sigVars,
                   process, children, tpc, ttarget, mtarget, scVars>>

\* ------------------------------------------------------------------ runs
\* --directory values: the default ['.'], two directories, one repeated.
DirectoryArgs == { <<".">>, <<"a", "b">>, <<"a", "a">> }

\* Neither -w/--wait nor -W/--drop.
NoFlags == [wait |-> FALSE, drop |-> FALSE]

\* Every combination of -w/--wait and -W/--drop.
FlagArgs == [wait : BOOLEAN, drop : BOOLEAN]

ArIdle ==
    /\ pathnames = <<".">> /\ todoPaths = {}
    /\ disposition = [s \in Sigs |-> "default"] /\ tripped = {} /\ hstack = <<>>
    /\ shutdowns = 0 /\ delivered = 0
    /\ process = 0 /\ children = <<>> /\ tpc = "idle"
    /\ ttarget = 0 /\ mtarget = 0 /\ events = 0
    /\ flags = NoFlags /\ gate = NoFlags /\ dropped = 0

InitScheduleTricks ==
    /\ cmd = "schedule_tricks" /\ pc = "st_loop" /\ err = "none"
    /\ tricks \in TrickLists /\ ti = 1 /\ ii = 1
    /\ observer = 1 /\ pathname = "."
    /\ nfiles = 0 /\ fidx = 1 /\ pyarg = <<".">> /\ observers = <<>> /\ tk = 1
    /\ sysPath = SysPath0 /\ calls = <<>>
    /\ ArIdle

InitTricksFrom ==
    /\ cmd = "tricks_from" /\ pc = "tf_begin" /\ err = "none"
    /\ tricks = <<>> /\ ti = 1 /\ ii = 1
    /\ observer = 0 /\ pathname = "."
    /\ nfiles \in 0..MaxFiles /\ fidx = 1 /\ pyarg \in PythonPathArgs
    /\ observers = <<>> /\ tk = 1
    /\ sysPath = SysPath0 /\ calls = <<>>
    /\ ArIdle

InitAutoRestart ==
    /\ cmd = "auto_restart" /\ pc = "ar_install" /\ err = "none"
    /\ tricks = <<>> /\ ti = 1 /\ ii = 1
    /\ observer = 0 /\ pathname = "."
    /\ nfiles = 0 /\ fidx = 1 /\ pyarg = <<".">> /\ observers = <<>> /\ tk = 1
    /\ sysPath = SysPath0 /\ calls = <<>>
    /\ pathnames \in DirectoryArgs /\ todoPaths = {}
    /\ disposition = [s \in Sigs |-> "default"] /\ tripped = {} /\ hstack = <<>>
    /\ shutdowns = 0 /\ delivered = 0
    /\ process = 0 /\ children = <<>> /\ tpc = "idle"
    /\ ttarget = 0 /\ mtarget = 0 /\ events = 0
    /\ flags = NoFlags /\ gate = NoFlags /\ dropped = 0

InitShellCommand ==
    /\ cmd = "shell_command" /\ pc = "sc_handler" /\ err = "none"
    /\ tricks = <<>> /\ ti = 1 /\ ii = 1
    /\ observer = 0 /\ pathname = "."
    /\ nfiles = 0 /\ fidx = 1 /\ pyarg = <<".">> /\ observers = <<>> /\ tk = 1
    /\ sysPath = SysPath0 /\ calls = <<>>
    /\ pathnames \in DirectoryArgs /\ todoPaths = {}
    /\ disposition = [s \in Sigs |-> "default"] /\ tripped = {} /\ hstack = <<>>
    /\ shutdowns = 0 /\ delivered = 0
    /\ process = 0 /\ children = <<>> /\ tpc = "idle"
    /\ ttarget = 0 /\ mtarget = 0 /\ events = 0
    /\ flags \in FlagArgs /\ gate = NoFlags /\ dropped = 0

InitLog ==
    /\ cmd = "log" /\ pc = "lg_observer" /\ err = "none"
    /\ tricks = <<>> /\ ti = 1 /\ ii = 1
    /\ observer = 0 /\ pathname = "."
    /\ nfiles = 0 /\ fidx = 1 /\ pyarg = <<".">> /\ observers = <<>> /\ tk = 1
    /\ sysPath = SysPath0 /\ calls = <<>>
    /\ pathnames \in DirectoryArgs /\ todoPaths = {}
    /\ disposition = [s \in Sigs |-> "default"] /\ tripped = {} /\ hstack = <<>>
    /\ shutdowns = 0 /\ delivered = 0
    /\ process = 0 /\ children = <<>> /\ tpc = "idle"
    /\ ttarget = 0 /\ mtarget = 0 /\ events = 0
    /\ flags = NoFlags /\ gate = NoFlags /\ dropped = 0

Init ==
    \/ InitScheduleTricks \/ InitTricksFrom \/ InitAutoRestart
    \/ InitShellCommand \/ InitLog

Next ==
    \/ ST_LoadFail \/ ST_ConstructFail \/ ST_Schedule \/ ST_NextTrick \/ ST_Return
    \/ TF_Begin \/ TF_NewObserver \/ TF_Missing \/ TF_NoTricksKey \/ TF_Load
    \/ TF_Start \/ TF_EnterLoop \/ TF_Cancel
    \/ TF_UnscheduleAll \/ TF_Stop \/ TF_StopsDone \/ TF_Join \/ TF_Return
    \/ AR_Install \/ AR_Installed
    \/ SignalTrips \/ SignalIgnored \/ SignalDefault
    \/ HandlerEnter \/ HandlerSkipped \/ HandlerNeuter \/ HandlerRaise
    \/ ChildExits
    \/ AR_StartFails \/ AR_Start \/ AR_Observer
    \/ SC_Handler \/ SC_Observer \/ LG_Observer
    \/ OW_Schedule \/ OW_Start \/ OW_Try \/ OW_Cancel \/ OW_Stop \/ OW_Join
    \/ AR_StopNothing \/ AR_StopSignal \/ AR_StopExited \/ AR_StopKill \/ AR_StopClear \/ AR_Return
    \/ T_Dispatch \/ T_StopNothing \/ T_StopSignal \/ T_StopExited \/ T_StopKill
    \/ T_StopClear \/ T_Start
    \/ G_Dispatch \/ G_Drop \/ G_Launch \/ G_WaitDone \/ L_Dispatch

Spec == Init /\ [][Next]_vars

\* ================================================================ claims
\* A (name, value) item that schedule_tricks cannot turn into a handler.
BadItem(item) == ~CanLoad(item.name) \/ ~item.valid

\* The position of the first such item in a list of items (0: none).
FirstFailure(specs) ==
    IF \E k \in 1..Len(specs) : BadItem(specs[k])
    THEN CHOOSE k \in 1..Len(specs) :
            BadItem(specs[k]) /\ \A j \in 1..(k - 1) : ~BadItem(specs[j])
    ELSE 0

\* C1: when every spec resolves and constructs, schedule_tricks returns
\* without error and the observer has then received exactly one schedule
\* call per declared spec, the k-th call carrying the handler built from
\* the k-th declared spec.
C1_RegistrationOrder ==
    LET specs == Flatten(tricks)
        sched == Scheduled(observer)
    IN /\ (cmd = "schedule_tricks" /\ FirstFailure(specs) = 0) => err = "none"
       /\ pc = "st_returned" =>
            /\ Len(sched) = Len(specs)
            /\ \A k \in 1..Len(specs) : sched[k].h = Construct(specs[k])

C1_Witness ==
    /\ cmd = "schedule_tricks" /\ pc = "st_returned"
    /\ Len(tricks) = 2 /\ Len(Flatten(tricks)) = 3
    /\ Scheduled(observer)[1].h # Scheduled(observer)[2].h
    /\ Scheduled(observer)[2].h # Scheduled(observer)[3].h

\* C2: if the N-th spec fails to resolve or construct, no watch for spec N
\* or a later spec is ever registered, schedule_tricks does not return
\* normally, and when the error has propagated the watches of specs
\* 1..N-1 are registered and have not been removed.
C2_StopAtFailure ==
    LET specs == Flatten(tricks)
        n == FirstFailure(specs)
        sched == Scheduled(observer)
    IN /\ n # 0 => (Len(sched) < n /\ pc # "st_returned")
       /\ (pc = "raised" /\ err \in {"LoadError", "ConstructError"}) =>
            /\ n # 0
            /\ err = (IF CanLoad(specs[n].name) THEN "ConstructError" ELSE "LoadError")
            /\ Len(sched) = n - 1
            /\ \A k \in 1..(n - 1) : sched[k].h = Construct(specs[k])
            /\ CallsOf(observer, "unschedule_all") = {}

C2_Witness ==
    /\ pc = "raised" /\ err = "LoadError"
    /\ Len(Scheduled(observer)) = 1
    /\ Len(Flatten(tricks)) = 3
    /\ ~BadItem(Flatten(tricks)[3])

StartupErrors == {"LoadError", "ConstructError", "OSError", "KeyError"}

\* C3: in tricks_from, when a configuration file is missing, lacks the
\* tricks key or carries a spec that fails to resolve, no observer has been
\* started when the error is raised.
C3_FailFast ==
    (cmd = "tricks_from" /\ err \in StartupErrors) =>
        \A o \in 1..nfiles : ~Started(o)

\* C4: in auto_restart at most one WatchdogShutdown reaches the main
\* thread whatever termination signals arrive and whenever they arrive;
\* once the handler has run, exactly one has been raised, and from then on
\* both signals are ignored.
C4_ShutdownOnce ==
    cmd = "auto_restart" =>
    /\ shutdowns <= 1
    /\ (hstack = <<>> /\ \E s \in Sigs : disposition[s] = "ignore") => shutdowns = 1
    /\ shutdowns = 1 => (hstack = <<>> /\ \A s \in Sigs : disposition[s] = "ignore")

\* A second signal was noted while the first handler invocation was still
\* neutering, and was dropped.
C4_Witness ==
    /\ shutdowns = 1 /\ delivered = 2 /\ tripped # {}
    /\ pc = "ow_join"

C6_ChildStoppedAtTeardown ==
    (/\ cmd = "auto_restart" /\ pc \in {"done", "raised"}
     /\ \E n \in CallsOf(Supervisor, "start") : calls[n].ok)
        => CallsOf(Supervisor, "stop") # {}

\* C7: in auto_restart the observer is started, stopped and joined at most
\* once each, stop never precedes start nor join stop, and when the command
\* has finished a started observer has been stopped and joined.
C7_ObserverLifecycle ==
    cmd = "auto_restart" =>
        /\ \A op \in {"start", "stop", "join"} : Cardinality(CallsOf(1, op)) <= 1
        /\ \A n \in CallsOf(1, "stop") : \E m \in CallsOf(1, "start") : m < n
        /\ \A n \in CallsOf(1, "join") : \E m \in CallsOf(1, "stop") : m < n
        /\ (pc \in {"done", "raised"} /\ Started(1)) => (Stopped(1) /\ Joined(1))

\* C8: when the teardown of tricks_from has ended, normally or by an error
\* of unschedule_all, stop or join, stop and join have been attempted on
\* every started observer.
C8_BestEffortTeardown ==
    (cmd = "tricks_from" /\ (pc = "done" \/ (pc = "raised" /\ err = "TeardownError"))) =>
        \A n \in 1..Len(observers) :
            CallsOf(observers[n], "stop") # {} /\ CallsOf(observers[n], "join") # {}

\* C9: every schedule call on an observer precedes every other call on that
\* observer: no observer is scheduled after its start, stop or join.
C9_NoScheduleAfterStart ==
    \A n \in 1..Len(calls) :
        calls[n].op = "schedule" =>
            \A m \in 1..(n - 1) : calls[m].o = calls[n].o => calls[m].op = "schedule"

\* The second observer of tricks_from was scheduled after the first one
\* was started, and both sessions ran to the end.
C9_Witness ==
    /\ cmd = "tricks_from" /\ pc = "done" /\ Len(observers) = 2
    /\ Scheduled(1) # <<>> /\ Scheduled(2) # <<>>

\* C10: in tricks_from sys.path is never changed once an observer has been
\* started.
C10_SysPathFrozenAfterStart ==
    [][sysPath' # sysPath => \A o \in 1..nfiles : ~Started(o)]_vars

\* C11: the handler built by shell_command is never configured with both
\* wait_for_process (serialize) and drop_during_process (drop-if-busy), for
\* every combination of the -w/--wait and -W/--drop flags.
C11_GateModesExclusive ==
    cmd = "shell_command" => ~(gate.wait /\ gate.drop)

\* C12: under drop-if-busy (-W/--drop) an event that arrives while a command
\* invocation is outstanding is discarded, never queued or launched later:
\* every event handled so far was either launched on arrival or discarded,
\* no two invocations run at the same time, and the launches never
\* outnumber the events.
C12_DropIfBusy ==
    (cmd = "shell_command" /\ flags.drop) =>
        /\ Cardinality(Running) <= 1
        /\ Len(children) <= events
        /\ Len(children) + dropped + (IF tpc = "g_event" THEN 1 ELSE 0) = events

\* An event was discarded while the first invocation was still running.
C12_Witness ==
    /\ cmd = "shell_command" /\ flags.drop /\ ~flags.wait
    /\ events = 2 /\ dropped >= 1 /\ Len(children) = 1 /\ tpc = "idle"

\* C13: under serialize (-w/--wait) no event is dropped and the dispatching
\* thread is blocked while an invocation runs, so every invocation but the
\* latest has exited, at most one runs, and every event handled so far has
\* been launched.
C13_Serialize ==
    (cmd = "shell_command" /\ flags.wait) =>
        /\ dropped = 0
        /\ \A c \in Running : c = Len(children) /\ tpc = "g_wait"
        /\ Len(children) + (IF tpc = "g_event" THEN 1 ELSE 0) = events

\* Two events were handled one after the other, each by its own invocation.
C13_Witness ==
    /\ cmd = "shell_command" /\ flags.wait /\ ~flags.drop
    /\ events = 2 /\ Len(children) = 2 /\ tpc = "idle"

\* The main thread has left the poll loop of observe_with or tricks_from
\* by executing the code that follows it.
PastPollLoop ==
    \/ pc \in {"ow_stop", "ow_join", "tf_unschedule", "tf_stop", "tf_join"}
    \/ cmd \in SessionCommands /\ pc = "done"

\* C14: cancellation is the only exit from the poll loop: as long as no
\* WatchdogShutdown has been raised, the main thread has not gone past the
\* poll loop and no observer has received unschedule_all, stop or join.
C14_CancellationOnlyExit ==
    shutdowns = 0 =>
        /\ ~PastPollLoop
        /\ \A k \in 1..Len(calls) :
              calls[k].o # Supervisor =>
                  calls[k].op \notin {"unschedule_all", "stop", "join"}

\* The observer of auto_restart was stopped and joined after the signal.
C14_Witness ==
    /\ cmd = "auto_restart" /\ shutdowns = 1
    /\ Stopped(1) /\ Joined(1)

\* C15: once WatchdogShutdown has been raised in the main thread no event
\* callback begins on the observer thread any more, the interval between
\* the raise and observer.stop() included.  Stated for auto_restart, whose
\* signal handler raises the exception.
C15_NoDispatchAfterRaise ==
    [][(cmd = "auto_restart" /\ events' > events) => shutdowns = 0]_vars

\* The main thread has called handler.stop() in the finally clause.
FinalStopBegun ==
    \E k \in 1..Len(calls) : calls[k].o = Supervisor /\ calls[k].op = "stop"

\* C16: in auto_restart the final handler.stop() begins only after the
\* started observer has been stopped and joined, and once it has returned
\* no restart callback is running or can still begin, whenever the
\* termination signal arrives after the handlers are installed.
C16_FinalStopAfterJoin ==
    cmd = "auto_restart" =>
        /\ (FinalStopBegun /\ Started(1)) => (Stopped(1) /\ Joined(1))
        /\ pc = "ar_return" => (tpc = "idle" /\ ~ObserverThreadRuns)

\* The observers that have received operation op, in the order of the calls
\* (from call n on).
RECURSIVE OpOrderFrom(_, _)
OpOrderFrom(op, n) ==
    IF n > Len(calls) THEN <<>>
    ELSE IF calls[n].op = op
         THEN <<calls[n].o>> \o OpOrderFrom(op, n + 1)
         ELSE OpOrderFrom(op, n + 1)

OpOrder(op) == OpOrderFrom(op, 1)

\* s is an initial segment of t.
IsPrefix(s, t) == Len(s) <= Len(t) /\ \A k \in 1..Len(s) : s[k] = t[k]

\* C17: in the teardown of tricks_from the observers are unscheduled,
\* stopped and joined in the order they were started; an observer is
\* stopped only right after its own unschedule_all; and no observer is
\* joined before stop has been called on every started observer.
C17_TeardownOrder ==
    cmd = "tricks_from" =>
        /\ OpOrder("start") = observers
        /\ IsPrefix(OpOrder("unschedule_all"), observers)
        /\ IsPrefix(OpOrder("stop"), observers)
        /\ IsPrefix(OpOrder("join"), observers)
        /\ \A k \in 1..Len(calls) :
              calls[k].op = "stop" =>
                  /\ k > 1
                  /\ calls[k - 1].op = "unschedule_all"
                  /\ calls[k - 1].o = calls[k].o
        /\ \A k \in 1..Len(calls) :
              calls[k].op = "join" =>
                  \A n \in 1..Len(observers) :
                      \E j \in 1..(k - 1) :
                          calls[j].op = "stop" /\ calls[j].o = observers[n]

\* Two observers were started, cancelled, and the teardown has completed.
C17_Witness ==
    /\ cmd = "tricks_from" /\ pc = "done"
    /\ Len(observers) = 2 /\ Len(OpOrder("join")) = 2

\* Some observer has been started and has not been stopped.
SomeObserverRunning ==
    \E k \in 1..Len(calls) :
        /\ calls[k].op = "start" /\ calls[k].o # Supervisor
        /\ ~Stopped(calls[k].o)

\* C18: in tricks_from, log, shell_command and auto_restart alike the
\* termination signal handler is armed while the main thread is in the poll
\* loop, so a SIGINT or SIGTERM becomes the WatchdogShutdown that the loop
\* catches and the process never ends on the signal with started observers.
C18_HandlerArmedInSessions ==
    cmd \in SessionCommands =>
        /\ (InPollLoop /\ hstack = <<>> /\ shutdowns = 0) =>
              \A s \in Sigs : disposition[s] = "handler"
        /\ pc = "killed" => ~SomeObserverRunning

\* The pathname argument schedule_tricks was called with for observer o:
\* the directory of the o-th tricks file under tricks_from, "." otherwise.
DefaultPath(o) == IF cmd = "tricks_from" THEN DirPath(FileName(o)) ELSE "."

\* The schedule calls made by schedule_tricks.
TrickSchedules ==
    { k \in 1..Len(calls) :
        cmd \in {"schedule_tricks", "tricks_from"} /\ calls[k].op = "schedule" }

\* C19 (as stated): the path registered for a handler is its
\* source_directory whenever the handler declares one, whatever its value,
\* and the default path otherwise.
C19_OverrideWhateverValue ==
    \A k \in TrickSchedules :
        calls[k].path =
            IF calls[k].h.source_directory # NoneValue
            THEN calls[k].h.source_directory
            ELSE DefaultPath(calls[k].o)

\* C19 (amended): the path registered for a handler is its source_directory
\* when the handler declares a non-empty one, and the default path when the
\* handler declares none or declares an empty one.
C19_OverrideWhenNonEmpty ==
    \A k \in TrickSchedules :
        LET declared == calls[k].h.source_directory
        IN /\ (declared # NoneValue /\ declared # "") => calls[k].path = declared
           /\ (declared = NoneValue \/ declared = "") =>
                  calls[k].path = DefaultPath(calls[k].o)

\* A run registered one handler under its override and one, with an empty
\* override, under the default path.
C19_Witness ==
    /\ \E k \in TrickSchedules :
          calls[k].h.source_directory = "srcdir" /\ calls[k].path = "srcdir"
    /\ \E k \in TrickSchedules :
          calls[k].h.source_directory = "" /\ calls[k].path = DefaultPath(calls[k].o)

\* The distinct pathnames handed to observe_with.
DistinctPathnames == { pathnames[n] : n \in 1..Len(pathnames) }

\* C20: observe_with schedules its one handler at most once per distinct
\* pathname and never for a path outside the list, and when the observer
\* is started every distinct pathname has been scheduled, every schedule
\* call preceding the start.
C20_DeduplicatedSchedules ==
    cmd \in {"log", "shell_command", "auto_restart"} =>
        LET sched == CallsOf(1, "schedule")
        IN /\ \A k \in sched :
                  calls[k].path \in DistinctPathnames /\ calls[k].h = Handler
           /\ \A j, k \in sched : calls[j].path = calls[k].path => j = k
           /\ \A n \in CallsOf(1, "start") :
                  /\ { calls[k].path : k \in sched } = DistinctPathnames
                  /\ \A k \in sched : k < n

\* A directory given twice was scheduled once before the observer started.
C20_Witness ==
    /\ cmd \in {"log", "shell_command", "auto_restart"}
    /\ pathnames = <<"a", "a">>
    /\ Started(1) /\ Cardinality(CallsOf(1, "schedule")) = 1

\* The roots listed under the python-path key of a configuration file.
ConfigRoots == CHOOSE pp \in ConfigPythonPaths : pp # NoKey

\* The roots of k configuration files, the latest file first.
RECURSIVE ConfigRootsOf(_)
ConfigRootsOf(k) == IF k = 0 THEN <<>> ELSE ConfigRoots \o ConfigRootsOf(k - 1)

\* The roots supplied at startup through --python-path.
StartupRoots == PathSplit(pyarg)

\* sys.path consists of the roots of k configuration files, then the
\* startup roots, then the path the interpreter started with.
SysPathLayout(k) ==
    /\ Len(sysPath) = k * Len(ConfigRoots) + Len(StartupRoots) + Len(SysPath0)
    /\ sysPath = ConfigRootsOf(k) \o StartupRoots \o SysPath0

\* C21: every call of add_to_sys_path(P) leaves sys.path equal to P, in the
\* given order, followed by the previous sys.path; and in tricks_from the
\* roots of the configuration files stand ahead of the --python-path roots,
\* which stand ahead of the initial path.
C21_PrependInOrder ==
    /\ [](cmd = "tricks_from" =>
            IF pc = "tf_begin" THEN sysPath = SysPath0
            ELSE \E k \in 0..nfiles : SysPathLayout(k))
    /\ [][sysPath' # sysPath =>
            \/ pc = "tf_begin" /\ sysPath' = StartupRoots \o sysPath
            \/ pc = "tf_file" /\ sysPath' = ConfigRoots \o sysPath]_vars

\* Two startup roots and the two roots of one configuration file.
C21_Witness ==
    /\ cmd = "tricks_from" /\ Len(StartupRoots) = 2
    /\ sysPath = ConfigRoots \o StartupRoots \o SysPath0

\* The initial handler.start() of auto_restart has failed.
InitialStartFailed ==
    /\ cmd = "auto_restart"
    /\ \E k \in 1..Len(calls) :
          calls[k].o = Supervisor /\ calls[k].op = "start" /\ ~calls[k].ok

\* C22: when the initial handler.start() of auto_restart fails, the error
\* leaves the command, no observer is created, scheduled or started, no
\* child is launched, and start() is called no second time.
C22_LaunchFailureFatal ==
    InitialStartFailed =>
        /\ pc = "raised" /\ err = "LaunchError"
        /\ observer = 0
        /\ \A k \in 1..Len(calls) : calls[k].o = Supervisor
        /\ Cardinality(CallsOf(Supervisor, "start")) = 1
        /\ CallsOf(Supervisor, "stop") = {}
        /\ children = <<>> /\ process = 0 /\ events = 0

\* The launch failed once the signal handlers were installed.
C22_Witness ==
    /\ InitialStartFailed /\ pc = "raised"
    /\ \A s \in Sigs : disposition[s] = "handler"

====
